---- MODULE Spec2Model ----
(***************************************************************************)
(* State-machine model of the restaurant delivery backend: the cart        *)
(* router, order placement, order status / agent assignment, the menu      *)
(* update route and review creation.  Each document collection is a        *)
(* variable; a handler that awaits the store more than once and whose      *)
(* interleavings matter (cart add, order placement, review creation) is    *)
(* split at its awaits into one action per store round trip, with the      *)
(* handler's locals kept in the request record in `reqs`.                  *)
(***************************************************************************)
EXTENDS Integers, Sequences, FiniteSets, Bags, TLC

VARIABLES
    menu,      \* MenuItem collection: id -> document
    carts,     \* Cart collection, in insertion order
    orders,    \* Order collection, in insertion order (index = _id)
    reviews,   \* Review collection, in insertion order
    rating,    \* Restaurant.rating: restaurant -> [average10, count]
    reqs,      \* bag of requests suspended at an await
    last,      \* what the last step did / answered
    created    \* per restaurant: how many reviews were answered 201, and their ratings' sum

vars == <<menu, carts, orders, reviews, rating, reqs, last, created>>

\* ---------------------------------------------------------------- bounds
MaxInFlight == 2
MaxQty == 2
MaxOrders == 1

\* ----------------------------------------------------------------- users
Null == "null"

Customers == {"c1", "c2"}
Owners == {"o1", "o2"}
Agents == {"a1", "a2"}
Admins == {"ad"}
Users == Customers \cup Owners \cup Agents \cup Admins

\* User.role
role(u) ==
    IF u \in Customers THEN "customer"
    ELSE IF u \in Owners THEN "restaurant_owner"
    ELSE IF u \in Agents THEN "delivery_agent"
    ELSE "admin"

\* middleware authorize(...roles): the caller's role must be in the allowed set
authorize(u, roles) == role(u) \in roles

Restaurants == {"r1", "r2"}

\* Restaurant.owner
restaurantOwner(r) == IF r = "r1" THEN "o1" ELSE "o2"

\* ------------------------------------------------------------------ menu
MenuIds == {"m1", "m2"}
ItemInputs == MenuIds \cup {"m9"}
PriceInputs == {-5, 10, 30}
NameInputs == {"dal", "naan"}
QtyInputs == (-1)..MaxQty

MenuInit == [m \in MenuIds |->
    IF m = "m1" THEN [restaurant |-> "r1", name |-> "dal", price |-> 10, isAvailable |-> TRUE]
    ELSE [restaurant |-> "r2", name |-> "naan", price |-> 30, isAvailable |-> TRUE]]

\* ----------------------------------------------------------------- helpers
RECURSIVE SumSeq(_)
SumSeq(s) == IF s = <<>> THEN 0 ELSE Head(s) + SumSeq(Tail(s))

Min(S) == CHOOSE x \in S : \A y \in S : x <= y

RemoveAt(s, i) == SubSeq(s, 1, i - 1) \o SubSeq(s, i + 1, Len(s))

\* What a step did: the handler, the await it ran up to ("begin": from the
\* request's arrival to the first suspension), the caller, the request's key
\* argument, the HTTP status answered (0: the handler is suspended, no answer yet),
\* the status the order had when a status request read it, whether the answer
\* carries an order document, and the quantity an update-quantity request asked for.
Resp(op, u, arg, code, err) ==
    [op |-> op, step |-> "begin", user |-> u, arg |-> arg, order |-> 0,
     code |-> code, err |-> err, alone |-> FALSE, was |-> "", sent |-> FALSE,
     qty |-> 0]
Step(op, u, arg) == Resp(op, u, arg, 0, "")
\* ... answered or done after the handler's await `step`, about order `id`
At(resp, step, id) == [resp EXCEPT !.step = step, !.order = id]

\* A suspended handler: its locals at the await it stopped at
Req(kind, u, pc, arg, doc, isNew, cartId, alone) ==
    [kind |-> kind, user |-> u, pc |-> pc, arg |-> arg, doc |-> doc, isNew |-> isNew,
     cartId |-> cartId, alone |-> alone, sum |-> 0, n |-> 0]

InFlight == BagToSet(reqs)
Resume(q, q2) == (reqs (-) SetToBag({q})) (+) SetToBag({q2})
Finish(q) == reqs (-) SetToBag({q})

\* Another request of the same user acts: requests of that user in flight overlap it.
RECURSIVE Overlap(_, _)
Overlap(b, u) ==
    IF BagToSet(b) = {} THEN EmptyBag
    ELSE LET q == CHOOSE x \in BagToSet(b) : TRUE
             n == CopiesIn(q, b)
             rest == [x \in BagToSet(b) \ {q} |-> b[x]]
             q2 == IF q.user = u THEN [q EXCEPT !.alone = FALSE] ELSE q
         IN  Overlap(rest, u) (+) [x \in {q2} |-> n]

UserInFlight(u) == \E q \in InFlight : q.user = u

\* ------------------------------------------------------------------ cart
\* Cart schema: documents [id, user, restaurant, items, totalAmount];
\* a line is [menuItem, quantity, price].
CartIdx(u) == {i \in 1..Len(carts) : carts[i].user = u}
CartIdxById(id) == {i \in 1..Len(carts) : carts[i].id = id}
HasCart(u) == CartIdx(u) # {}

\* Cart.findOne({ user }): the first match in natural order
CartFindOne(u) == carts[Min(CartIdx(u))]

\* Cart.findOneAndDelete({ user })
CartFindOneAndDelete(u) ==
    IF HasCart(u) THEN RemoveAt(carts, Min(CartIdx(u))) ELSE carts

\* Cart pre-save: totalAmount is the sum of price * quantity over the lines
CartTotal(items) ==
    SumSeq([i \in 1..Len(items) |-> items[i].price * items[i].quantity])

\* Variant: a cart schema without the minimum on quantity
CartValid_NoMin(doc) == TRUE

\* Cart schema validation on save: every line has quantity >= 1
CartValid(doc) == \A i \in 1..Len(doc.items) : doc.items[i].quantity >= 1

\* Variant: a cart collection without the uniqueness constraint
CartInsertAllowed_NoIndex(doc) == TRUE

\* Cart.user is unique in the collection: an insert for a user who has a cart fails
CartInsertAllowed(doc) == ~HasCart(doc.user)

\* _id of a new Cart(): fresh among the stored and the loaded documents
UsedCartIds ==
    {carts[i].id : i \in 1..Len(carts)} \cup {q.cartId : q \in InFlight}
FreshCartId ==
    Min({i \in 1..(Cardinality(UsedCartIds) + 1) : i \notin UsedCartIds})

\* cart.items.find(item => item.menuItem.toString() === menuItemId)
LineIdx(items, m) == {i \in 1..Len(items) : items[i].menuItem = m}

\* cart.save() of a loaded or new document `doc`: the outcome and the collection
CartSaveErr(doc, isNew) ==
    IF ~CartValid(doc) THEN "ValidationError"
    ELSE IF isNew THEN (IF CartInsertAllowed(doc) THEN "" ELSE "E11000")
    ELSE IF CartIdxById(doc.id) = {} THEN "DocumentNotFound"
    ELSE ""
CartSaved(doc, isNew) ==
    LET d == [doc EXCEPT !.totalAmount = CartTotal(doc.items)]
    IN  IF CartSaveErr(doc, isNew) # "" THEN carts
        ELSE IF isNew THEN Append(carts, d)
        ELSE [i \in 1..Len(carts) |-> IF carts[i].id = doc.id THEN d ELSE carts[i]]

\* Variant: a merge that also refreshes the line's price from the menu item
AddedTo_Reprice(cart, m, menuItem, qty) ==
    LET at == LineIdx(cart.items, m)
        items == IF at # {}
                 THEN [cart.items EXCEPT ![Min(at)].quantity = @ + qty,
                                         ![Min(at)].price = menuItem.price]
                 ELSE Append(cart.items,
                        [menuItem |-> m, quantity |-> qty, price |-> menuItem.price])
    IN  [cart EXCEPT !.items = items,
                     !.restaurant = IF @ = Null THEN menuItem.restaurant ELSE @]

\* router.post('/') of the cart router, up to `await cart.save()`
AddedTo(cart, m, menuItem, qty) ==
    LET at == LineIdx(cart.items, m)
        items == IF at # {}
                 THEN [cart.items EXCEPT ![Min(at)].quantity = @ + qty]
                 ELSE Append(cart.items,
                        [menuItem |-> m, quantity |-> qty, price |-> menuItem.price])
    IN  [cart EXCEPT !.items = items,
                     !.restaurant = IF @ = Null THEN menuItem.restaurant ELSE @]

\* The model's cap on a line's quantity
QtyBounded(doc) == \A i \in 1..Len(doc.items) : doc.items[i].quantity <= MaxQty

CartAddBegin(u, m, qty) ==
    /\ BagCardinality(reqs) < MaxInFlight
    /\ (authorize(u, {"customer"}) /\ m \in DOMAIN menu /\ HasCart(u))
          => QtyBounded(AddedTo(CartFindOne(u), m, menu[m], qty))
    /\ UNCHANGED <<menu, carts, orders, reviews, rating, created>>
    /\ IF ~authorize(u, {"customer"})
       THEN reqs' = reqs /\ last' = Resp("cartAdd", u, m, 403, "")
       ELSE IF m \notin DOMAIN menu \/ ~menu[m].isAvailable
       THEN reqs' = Overlap(reqs, u) /\ last' = Resp("cartAdd", u, m, 400, "")
       ELSE IF ~HasCart(u)
       THEN /\ reqs' = Overlap(reqs, u) (+) SetToBag({
                  Req("cartAdd", u, "save", m,
                      [id |-> FreshCartId, user |-> u,
                       restaurant |-> menu[m].restaurant,
                       items |-> <<[menuItem |-> m, quantity |-> qty,
                                    price |-> menu[m].price]>>,
                       totalAmount |-> 0],
                      TRUE, FreshCartId, ~UserInFlight(u))})
            /\ last' = Step("cartAdd", u, m)
       ELSE IF CartFindOne(u).restaurant # Null
               /\ CartFindOne(u).restaurant # menu[m].restaurant
       THEN reqs' = Overlap(reqs, u) /\ last' = Resp("cartAdd", u, m, 400, "")
       ELSE /\ reqs' = Overlap(reqs, u) (+) SetToBag({
                  Req("cartAdd", u, "save", m,
                      AddedTo(CartFindOne(u), m, menu[m], qty),
                      FALSE, CartFindOne(u).id, ~UserInFlight(u))})
            /\ last' = Step("cartAdd", u, m)

\* `await cart.save()` of the add handler, and its answer
CartAddSave(q) ==
    /\ q.kind = "cartAdd" /\ q.pc = "save"
    /\ carts' = CartSaved(q.doc, q.isNew)
    /\ reqs' = Finish(q)
    /\ last' = IF CartSaveErr(q.doc, q.isNew) = ""
               THEN At(Resp("cartAdd", q.user, q.arg, 200, ""), "save", 0)
               ELSE At(Resp("cartAdd", q.user, q.arg, 500, CartSaveErr(q.doc, q.isNew)),
                       "save", 0)
    /\ UNCHANGED <<menu, orders, reviews, rating, created>>

\* router.put('/:itemId') of the cart router
CartUpdate(u, m, qty) ==
    LET Answer(code, err) == [Resp("cartUpdate", u, m, code, err) EXCEPT !.qty = qty]
    IN
    /\ UNCHANGED <<menu, orders, reviews, rating, created>>
    /\ IF ~authorize(u, {"customer"})
       THEN UNCHANGED <<carts, reqs>> /\ last' = Answer(403, "")
       ELSE /\ reqs' = Overlap(reqs, u)
            /\ IF qty <= 0
               THEN carts' = carts /\ last' = Answer(400, "")
               ELSE IF ~HasCart(u) \/ LineIdx(CartFindOne(u).items, m) = {}
               THEN carts' = carts /\ last' = Answer(404, "")
               ELSE LET cart == CartFindOne(u)
                        doc == [cart EXCEPT
                                  !.items[Min(LineIdx(cart.items, m))].quantity = qty]
                    IN  /\ carts' = CartSaved(doc, FALSE)
                        /\ last' = IF CartSaveErr(doc, FALSE) = ""
                                   THEN Answer(200, "")
                                   ELSE Answer(500, CartSaveErr(doc, FALSE))

\* Variant: a remove that keeps the restaurant of an emptied cart
CartRemoveItem_KeepRestaurant(u, itemId) ==
    IF ~HasCart(u)
    THEN carts' = carts /\ last' = Resp("cartRemove", u, itemId, 404, "")
    ELSE LET cart == CartFindOne(u)
             kept == SelectSeq(cart.items, LAMBDA l : l.menuItem # itemId)
             doc == [cart EXCEPT !.items = kept]
         IN  /\ carts' = CartSaved(doc, FALSE)
             /\ last' = Resp("cartRemove", u, itemId, 200, "")

\* router.delete('/:itemId') of the cart router
CartRemoveItem(u, itemId) ==
    IF ~HasCart(u)
    THEN carts' = carts /\ last' = Resp("cartRemove", u, itemId, 404, "")
    ELSE LET cart == CartFindOne(u)
             kept == SelectSeq(cart.items, LAMBDA l : l.menuItem # itemId)
             doc == [cart EXCEPT !.items = kept,
                                 !.restaurant = IF kept = <<>> THEN Null ELSE @]
         IN  /\ carts' = CartSaved(doc, FALSE)
             /\ last' = Resp("cartRemove", u, itemId, 200, "")

\* router.delete('/clear') of the cart router
CartClear(u) ==
    /\ carts' = CartFindOneAndDelete(u)
    /\ last' = Resp("cartClear", u, "clear", 200, "")

\* The cart router's DELETE routes in registration order; express runs the first
\* whose path matches (a ':param' segment matches any segment).
CartDeleteRoutes ==
    << [param |-> TRUE, literal |-> "", handler |-> "cartRemove"],
       [param |-> FALSE, literal |-> "clear", handler |-> "cartClear"] >>
RouteMatches(route, seg) == route.param \/ route.literal = seg
CartDeleteHandler(seg) ==
    CartDeleteRoutes[Min({i \in 1..Len(CartDeleteRoutes) :
                            RouteMatches(CartDeleteRoutes[i], seg)})].handler

\* DELETE /api/cart/<seg>
CartDelete(u, seg) ==
    /\ UNCHANGED <<menu, orders, reviews, rating, created>>
    /\ IF ~authorize(u, {"customer"})
       THEN UNCHANGED <<carts, reqs>> /\ last' = Resp(CartDeleteHandler(seg), u, seg, 403, "")
       ELSE /\ reqs' = Overlap(reqs, u)
            /\ IF CartDeleteHandler(seg) = "cartRemove"
               THEN CartRemoveItem(u, seg)
               ELSE CartClear(u)

\* ------------------------------------------------------- order placement
\* Order schema defaults: status 'placed', paymentStatus 'pending', no agent
DeliveryFee == 50

\* Variant: the tax truncated instead of rounded
Tax_Floor(total) == (total * 5) \div 100

\* Math.round(cart.totalAmount * 0.05)
Tax(total) == (total * 5 + 50) \div 100

\* populate('items.menuItem', 'name price'): a line whose menu item was deleted
\* populates to null
Populates(cart) ==
    \A i \in 1..Len(cart.items) : cart.items[i].menuItem \in DOMAIN menu

OrderFrom(u, cart) ==
    [customer |-> u,
     restaurant |-> cart.restaurant,
     items |-> [i \in 1..Len(cart.items) |->
                  [menuItem |-> cart.items[i].menuItem,
                   name |-> menu[cart.items[i].menuItem].name,
                   quantity |-> cart.items[i].quantity,
                   price |-> cart.items[i].price]],
     totalAmount |-> cart.totalAmount,
     deliveryFee |-> DeliveryFee,
     tax |-> Tax(cart.totalAmount),
     finalAmount |-> cart.totalAmount + DeliveryFee + Tax(cart.totalAmount),
     status |-> "placed",
     paymentStatus |-> "pending",
     actualDeliveryTime |-> Null,
     deliveryAgent |-> Null]

PlacesInFlight == {q \in InFlight : q.kind = "place" /\ q.pc = "save"}

\* Variant: a placement that tests only for a missing cart
PlaceOrderBegin_NoEmptyCheck(u) ==
    /\ BagCardinality(reqs) < MaxInFlight
    /\ Len(orders) + BagCardinality([q \in PlacesInFlight |-> reqs[q]]) < MaxOrders
    /\ UNCHANGED <<menu, carts, orders, reviews, rating, created>>
    /\ IF ~authorize(u, {"customer"})
       THEN reqs' = reqs /\ last' = Resp("place", u, "", 403, "")
       ELSE IF ~HasCart(u)
       THEN reqs' = Overlap(reqs, u) /\ last' = Resp("place", u, "", 400, "")
       ELSE IF ~Populates(CartFindOne(u))
       THEN reqs' = Overlap(reqs, u) /\ last' = Resp("place", u, "", 500, "TypeError")
       ELSE /\ reqs' = Overlap(reqs, u) (+) SetToBag({
                  Req("place", u, "save", "", OrderFrom(u, CartFindOne(u)),
                      TRUE, CartFindOne(u).id, ~UserInFlight(u))})
            /\ last' = Step("place", u, "")

\* router.post('/') of the order router, up to `await order.save()`
PlaceOrderBegin(u) ==
    /\ BagCardinality(reqs) < MaxInFlight
    /\ Len(orders) + BagCardinality([q \in PlacesInFlight |-> reqs[q]]) < MaxOrders
    /\ UNCHANGED <<menu, carts, orders, reviews, rating, created>>
    /\ IF ~authorize(u, {"customer"})
       THEN reqs' = reqs /\ last' = Resp("place", u, "", 403, "")
       ELSE IF ~HasCart(u) \/ Len(CartFindOne(u).items) = 0
       THEN reqs' = Overlap(reqs, u) /\ last' = Resp("place", u, "", 400, "")
       ELSE IF ~Populates(CartFindOne(u))
       THEN reqs' = Overlap(reqs, u) /\ last' = Resp("place", u, "", 500, "TypeError")
       ELSE /\ reqs' = Overlap(reqs, u) (+) SetToBag({
                  Req("place", u, "save", "", OrderFrom(u, CartFindOne(u)),
                      TRUE, CartFindOne(u).id, ~UserInFlight(u))})
            /\ last' = Step("place", u, "")

\* `await order.save()`
PlaceOrderSave(q) ==
    /\ q.kind = "place" /\ q.pc = "save"
    /\ orders' = Append(orders, q.doc)
    /\ reqs' = Resume(q, [q EXCEPT !.pc = "deleteCart"])
    /\ last' = At(Step("place", q.user, ""), "save", 0)
    /\ UNCHANGED <<menu, carts, reviews, rating, created>>

\* Variant: a placement that forgets to delete the cart
PlaceOrderDeleteCart_Skip(q) ==
    /\ q.kind = "place" /\ q.pc = "deleteCart"
    /\ carts' = carts
    /\ reqs' = Resume(q, [q EXCEPT !.pc = "respond"])
    /\ last' = At(Step("place", q.user, ""), "deleteCart", 0)
    /\ UNCHANGED <<menu, orders, reviews, rating, created>>

\* `await Cart.findOneAndDelete({ user: req.user._id })`
PlaceOrderDeleteCart(q) ==
    /\ q.kind = "place" /\ q.pc = "deleteCart"
    /\ carts' = CartFindOneAndDelete(q.user)
    /\ reqs' = Resume(q, [q EXCEPT !.pc = "respond"])
    /\ last' = At(Step("place", q.user, ""), "deleteCart", 0)
    /\ UNCHANGED <<menu, orders, reviews, rating, created>>

\* `await order.populate(...)`, then res.status(201)
PlaceOrderRespond(q) ==
    /\ q.kind = "place" /\ q.pc = "respond"
    /\ reqs' = Finish(q)
    /\ last' = [At(Resp("place", q.user, "", 201, ""), "respond", 0)
                  EXCEPT !.alone = q.alone]
    /\ UNCHANGED <<menu, carts, orders, reviews, rating, created>>

\* The server process dies: every suspended handler is lost, the store stays.
Crash ==
    /\ reqs # EmptyBag
    /\ reqs' = EmptyBag
    /\ last' = Step("crash", "", "")
    /\ UNCHANGED <<menu, carts, orders, reviews, rating, created>>

\* ------------------------------------------------------------ menu update
\* req.body of PUT /api/menu/:id, one field at a time (the route runs no Joi schema)
MenuBodies ==
    [field : {"restaurant"}, value : Restaurants]
      \cup [field : {"price"}, value : PriceInputs]
      \cup [field : {"name"}, value : NameInputs]
      \cup [field : {"isAvailable"}, value : BOOLEAN]

\* runValidators: price has min 0
MenuBodyValid(body) == body.field = "price" => body.value >= 0

MenuUpdated(doc, body) ==
    IF body.field = "restaurant" THEN [doc EXCEPT !.restaurant = body.value]
    ELSE IF body.field = "price" THEN [doc EXCEPT !.price = body.value]
    ELSE IF body.field = "name" THEN [doc EXCEPT !.name = body.value]
    ELSE [doc EXCEPT !.isAvailable = body.value]

\* router.put('/:id') of the menu router
MenuUpdate(u, m, body) ==
    /\ UNCHANGED <<carts, orders, reviews, rating, created, reqs>>
    /\ IF ~authorize(u, {"restaurant_owner"})
       THEN menu' = menu /\ last' = Resp("menuUpdate", u, m, 403, "")
       ELSE IF m \notin DOMAIN menu
       THEN menu' = menu /\ last' = Resp("menuUpdate", u, m, 404, "")
       ELSE IF restaurantOwner(menu[m].restaurant) # u
       THEN menu' = menu /\ last' = Resp("menuUpdate", u, m, 403, "")
       ELSE IF ~MenuBodyValid(body)
       THEN menu' = menu /\ last' = Resp("menuUpdate", u, m, 500, "ValidationError")
       ELSE /\ menu' = [menu EXCEPT ![m] = MenuUpdated(menu[m], body)]
            /\ last' = Resp("menuUpdate", u, m, 200, "")

\* router.delete('/:id') of the menu router
MenuDelete(u, m) ==
    /\ UNCHANGED <<carts, orders, reviews, rating, created, reqs>>
    /\ IF ~authorize(u, {"restaurant_owner"})
       THEN menu' = menu /\ last' = Resp("menuDelete", u, m, 403, "")
       ELSE IF m \notin DOMAIN menu
       THEN menu' = menu /\ last' = Resp("menuDelete", u, m, 404, "")
       ELSE IF restaurantOwner(menu[m].restaurant) # u
       THEN menu' = menu /\ last' = Resp("menuDelete", u, m, 403, "")
       ELSE /\ menu' = [x \in DOMAIN menu \ {m} |-> menu[x]]
            /\ last' = Resp("menuDelete", u, m, 200, "")

\* ------------------------------------------------- order status / assignment
StatusInputs ==
    {"placed", "accepted", "preparing", "ready", "picked_up", "delivered", "cancelled"}
OrderIdInputs == {1, 9}
AgentIdInputs == Users \cup {"u9"}

\* Variant: an owner status set that also lets owners mark orders picked up
restaurantStatuses_Wide == {"accepted", "preparing", "ready", "picked_up"}

\* const restaurantStatuses, agentStatuses
restaurantStatuses == {"accepted", "preparing", "ready"}
agentStatuses == {"picked_up", "delivered"}

\* new Date() of the delivery stamp
Now == "now"

\* Order.findById
OrderExists(id) == id \in 1..Len(orders)

\* User.findById
UserExists(id) == id \in Users

\* Variant: status checks that let an agent deliver only an order that is picked up
StatusCode_Progression(u, id, status) ==
    IF ~OrderExists(id) THEN 404
    ELSE IF role(u) = "restaurant_owner"
    THEN IF status \notin restaurantStatuses THEN 400
         ELSE IF restaurantOwner(orders[id].restaurant) # u THEN 403
         ELSE 200
    ELSE IF role(u) = "delivery_agent"
    THEN IF status \notin agentStatuses THEN 400
         ELSE IF orders[id].deliveryAgent # u THEN 403
         ELSE IF status = "delivered" /\ orders[id].status # "picked_up" THEN 400
         ELSE 200
    ELSE 403

\* The permission checks of router.put('/:id/status'): the status answered, 200
\* when the update goes ahead
StatusCode(u, id, status) ==
    IF ~OrderExists(id) THEN 404
    ELSE IF role(u) = "restaurant_owner"
    THEN IF status \notin restaurantStatuses THEN 400
         ELSE IF restaurantOwner(orders[id].restaurant) # u THEN 403
         ELSE 200
    ELSE IF role(u) = "delivery_agent"
    THEN IF status \notin agentStatuses THEN 400
         ELSE IF orders[id].deliveryAgent # u THEN 403
         ELSE 200
    ELSE 403

\* Variant: a status update that recomputes the amount due without the tax
StatusApplied_Recompute(order, status) ==
    IF status = "delivered"
    THEN [order EXCEPT !.status = status, !.actualDeliveryTime = Now,
                       !.paymentStatus = "paid",
                       !.finalAmount = order.totalAmount + order.deliveryFee]
    ELSE [order EXCEPT !.status = status]

\* Variant: a delivery that stamps the time but leaves the payment pending
StatusApplied_NoPayment(order, status) ==
    IF status = "delivered"
    THEN [order EXCEPT !.status = status, !.actualDeliveryTime = Now]
    ELSE [order EXCEPT !.status = status]

\* order.status = status, and the stamps of a delivery
StatusApplied(order, status) ==
    IF status = "delivered"
    THEN [order EXCEPT !.status = status, !.actualDeliveryTime = Now,
                       !.paymentStatus = "paid"]
    ELSE [order EXCEPT !.status = status]

\* router.put('/:id/status') of the order router
UpdateStatus(u, id, status) ==
    /\ orders' = IF StatusCode(u, id, status) = 200
                 THEN [orders EXCEPT ![id] = StatusApplied(orders[id], status)]
                 ELSE orders
    /\ last' = [At(Resp("status", u, status, StatusCode(u, id, status), ""), "begin", id)
                  EXCEPT !.was = IF OrderExists(id) THEN orders[id].status ELSE ""]
    /\ UNCHANGED <<menu, carts, reviews, rating, reqs, created>>

\* Variant: an assignment that checks only that the target user exists
AssignCode_AnyUser(u, id, agentId) ==
    IF role(u) # "restaurant_owner" /\ role(u) # "admin" THEN 403
    ELSE IF ~OrderExists(id) THEN 404
    ELSE IF ~UserExists(agentId) THEN 400
    ELSE 200

\* The checks of router.put('/:id/assign')
AssignCode(u, id, agentId) ==
    IF role(u) # "restaurant_owner" /\ role(u) # "admin" THEN 403
    ELSE IF ~OrderExists(id) THEN 404
    ELSE IF ~UserExists(agentId) \/ role(agentId) # "delivery_agent" THEN 400
    ELSE 200

\* router.put('/:id/assign') of the order router
AssignAgent(u, id, agentId) ==
    /\ orders' = IF AssignCode(u, id, agentId) = 200
                 THEN [orders EXCEPT ![id].deliveryAgent = agentId]
                 ELSE orders
    /\ last' = At(Resp("assign", u, agentId, AssignCode(u, id, agentId), ""), "begin", id)
    /\ UNCHANGED <<menu, carts, reviews, rating, reqs, created>>

\* const hasAccess of router.get('/:id') of the order router
hasAccess(u, order) ==
    order.customer = u \/ order.deliveryAgent = u \/ role(u) = "admin"

\* Variant: an order read that lets every restaurant owner through
GetCode_AnyOwner(u, id) ==
    IF ~OrderExists(id) THEN 404
    ELSE IF role(u) = "restaurant_owner" THEN 200
    ELSE IF ~hasAccess(u, orders[id]) THEN 403
    ELSE 200

\* The checks of router.get('/:id'): 200 when the order is sent
GetCode(u, id) ==
    IF ~OrderExists(id) THEN 404
    ELSE IF role(u) = "restaurant_owner"
    THEN IF restaurantOwner(orders[id].restaurant) # u THEN 403 ELSE 200
    ELSE IF ~hasAccess(u, orders[id]) THEN 403
    ELSE 200

\* router.get('/:id') of the order router
GetOrder(u, id) ==
    /\ last' = [At(Resp("get", u, "", GetCode(u, id), ""), "begin", id)
                  EXCEPT !.sent = (GetCode(u, id) = 200)]
    /\ UNCHANGED <<menu, carts, orders, reviews, rating, reqs, created>>

\* ---------------------------------------------------------------- reviews
\* Review documents: [customer, restaurant, order, restaurantRating]; the
\* collection is a bag (no handler depends on its order).
RatingInputs == 0..6

\* Review.findOne({ customer, order })
ReviewExists(u, id) ==
    \E d \in BagToSet(reviews) : d.customer = u /\ d.order = id

\* Variant: a review collection without the unique index
ReviewInsertAllowed_NoIndex(doc) == TRUE

\* reviewSchema.index({ customer: 1, order: 1 }, { unique: true })
ReviewInsertAllowed(doc) == ~ReviewExists(doc.customer, doc.order)

\* restaurantRating: required, min 1, max 5
ReviewValid(doc) == doc.restaurantRating >= 1 /\ doc.restaurantRating <= 5

\* Variant: a find without the restaurant filter
ReviewsOfRestaurant_All(r) == reviews

\* Review.find({ restaurant })
ReviewsOfRestaurant(r) ==
    [d \in {x \in BagToSet(reviews) : x.restaurant = r} |-> reviews[d]]

\* reviews.reduce((sum, r) => sum + r.restaurantRating, 0)
RECURSIVE RatingSum(_)
RatingSum(b) ==
    IF BagToSet(b) = {} THEN 0
    ELSE LET d == CHOOSE x \in BagToSet(b) : TRUE
         IN  d.restaurantRating * b[d]
               + RatingSum([x \in BagToSet(b) \ {d} |-> b[x]])

\* Variant: truncation instead of rounding
RoundTenths_Floor(sum, n) == (10 * sum) \div n

\* Math.round(avgRating * 10), the stored average in tenths
RoundTenths(sum, n) == (20 * sum + n) \div (2 * n)

\* Variant: the review checks without the delivered test
ReviewCode_NoStatus(u, id) ==
    IF ~OrderExists(id) THEN 404
    ELSE IF orders[id].customer # u THEN 403
    ELSE IF ReviewExists(u, id) THEN 400
    ELSE 0

\* The checks of router.post('/') of the review router up to the new Review()
ReviewCode(u, id) ==
    IF ~OrderExists(id) THEN 404
    ELSE IF orders[id].customer # u THEN 403
    ELSE IF orders[id].status # "delivered" THEN 400
    ELSE IF ReviewExists(u, id) THEN 400
    ELSE 0

ReviewBegin(u, id, stars) ==
    /\ BagCardinality(reqs) < MaxInFlight
    /\ UNCHANGED <<menu, carts, orders, reviews, rating, created>>
    /\ IF ~authorize(u, {"customer"})
       THEN reqs' = reqs /\ last' = At(Resp("review", u, "", 403, ""), "begin", id)
       ELSE IF ReviewCode(u, id) # 0
       THEN /\ reqs' = reqs
            /\ last' = At(Resp("review", u, "", ReviewCode(u, id), ""), "begin", id)
       ELSE /\ reqs' = reqs (+) SetToBag({
                  Req("review", u, "save", "",
                      [customer |-> u, restaurant |-> orders[id].restaurant,
                       order |-> id, restaurantRating |-> stars],
                      TRUE, 0, TRUE)})
            /\ last' = At(Step("review", u, ""), "begin", id)

\* `await review.save()`
ReviewSave(q) ==
    /\ q.kind = "review" /\ q.pc = "save"
    /\ UNCHANGED <<menu, carts, orders, rating, created>>
    /\ IF ~ReviewValid(q.doc)
       THEN /\ reviews' = reviews /\ reqs' = Finish(q)
            /\ last' = At(Resp("review", q.user, "", 500, "ValidationError"),
                          "save", q.doc.order)
       ELSE IF ~ReviewInsertAllowed(q.doc)
       THEN /\ reviews' = reviews /\ reqs' = Finish(q)
            /\ last' = At(Resp("review", q.user, "", 500, "E11000"), "save", q.doc.order)
       ELSE /\ reviews' = reviews (+) SetToBag({q.doc})
            /\ reqs' = Resume(q, [q EXCEPT !.pc = "find"])
            /\ last' = At(Step("review", q.user, ""), "save", q.doc.order)

\* `await Review.find({ restaurant: order.restaurant })` and the reduce
ReviewFind(q) ==
    /\ q.kind = "review" /\ q.pc = "find"
    /\ reqs' = Resume(q, [q EXCEPT !.pc = "write",
                             !.sum = RatingSum(ReviewsOfRestaurant(q.doc.restaurant)),
                             !.n = BagCardinality(ReviewsOfRestaurant(q.doc.restaurant))])
    /\ last' = At(Step("review", q.user, ""), "find", q.doc.order)
    /\ UNCHANGED <<menu, carts, orders, reviews, rating, created>>

\* `await Restaurant.findByIdAndUpdate(order.restaurant, ...)`, then the 201
ReviewWrite(q) ==
    /\ q.kind = "review" /\ q.pc = "write"
    /\ rating' = [rating EXCEPT ![q.doc.restaurant] =
                     [average10 |-> RoundTenths(q.sum, q.n), count |-> q.n]]
    /\ created' = [created EXCEPT ![q.doc.restaurant] =
                     [n |-> @.n + 1, sum |-> @.sum + q.doc.restaurantRating]]
    /\ reqs' = Finish(q)
    /\ last' = At(Resp("review", q.user, "", 201, ""), "write", q.doc.order)
    /\ UNCHANGED <<menu, carts, orders, reviews>>

\* ------------------------------------------------------------------ specs
RatingInit == [r \in Restaurants |-> [average10 |-> 0, count |-> 0]]
CreatedInit == [r \in Restaurants |-> [n |-> 0, sum |-> 0]]

Init ==
    /\ menu = MenuInit
    /\ carts = <<>>
    /\ orders = <<>>
    /\ reviews = EmptyBag
    /\ rating = RatingInit
    /\ reqs = EmptyBag
    /\ last = Step("init", "", "")
    /\ created = CreatedInit

\* Requests that arrive one after another: a handler starts when none is suspended.
Sequential == reqs = EmptyBag

\* Workload of Spec: one customer's cart requests and the owners' menu updates,
\* one request at a time.
CartCallers == {"c1", "o1"}
MenuCallers == {"o1", "o2", "c1"}
SpecMenuBodies == {b \in MenuBodies : b.field \in {"restaurant", "isAvailable"}}

Next ==
    \/ \E u \in CartCallers, m \in ItemInputs, qty \in QtyInputs :
          Sequential /\ CartAddBegin(u, m, qty)
    \/ \E q \in InFlight : CartAddSave(q)
    \/ \E u \in CartCallers, m \in ItemInputs, qty \in QtyInputs :
          Sequential /\ CartUpdate(u, m, qty)
    \/ \E u \in CartCallers, seg \in ItemInputs \cup {"clear"} :
          Sequential /\ CartDelete(u, seg)
    \/ \E u \in MenuCallers, m \in ItemInputs, body \in SpecMenuBodies :
          Sequential /\ MenuUpdate(u, m, body)

Spec == Init /\ [][Next]_vars

\* Workload of SpecPlace: one customer's add, remove and place-order requests,
\* handled concurrently (up to MaxInFlight suspended handlers), and crashes.
PlaceQtys == 1..MaxQty
PlaceSegs == {"m1", "clear"}

NextPlace ==
    \/ \E u \in CartCallers, m \in MenuIds, qty \in PlaceQtys : CartAddBegin(u, m, qty)
    \/ \E q \in InFlight : CartAddSave(q)
    \/ \E u \in CartCallers, seg \in PlaceSegs : CartDelete(u, seg)
    \/ \E u \in CartCallers : PlaceOrderBegin(u)
    \/ \E q \in InFlight : PlaceOrderSave(q)
    \/ \E q \in InFlight : PlaceOrderDeleteCart(q)
    \/ \E q \in InFlight : PlaceOrderRespond(q)
    \/ Crash

SpecPlace == Init /\ [][NextPlace]_vars

\* Workload of SpecOrders: two placed orders, one per restaurant; every user sends
\* status updates and agent assignments for the first and for an unknown id.
PlacedOrder(u, m) ==
    OrderFrom(u, [id |-> 1, user |-> u, restaurant |-> MenuInit[m].restaurant,
                  items |-> <<[menuItem |-> m, quantity |-> 1,
                               price |-> MenuInit[m].price]>>,
                  totalAmount |-> MenuInit[m].price])

InitOrders ==
    /\ menu = MenuInit
    /\ carts = <<>>
    /\ orders = <<PlacedOrder("c1", "m1"), PlacedOrder("c2", "m2")>>
    /\ reviews = EmptyBag
    /\ rating = RatingInit
    /\ reqs = EmptyBag
    /\ last = Step("init", "", "")
    /\ created = CreatedInit

NextOrders ==
    \/ \E u \in Users, id \in OrderIdInputs, status \in StatusInputs :
          UpdateStatus(u, id, status)
    \/ \E u \in Users, id \in OrderIdInputs, agentId \in AgentIdInputs :
          AssignAgent(u, id, agentId)
    \/ \E u \in Users, id \in OrderIdInputs : GetOrder(u, id)

SpecOrders == InitOrders /\ [][NextOrders]_vars

\* An order as its agent finds it: assigned by the owner, then picked up / delivered
OrderAt(u, m, agent, status) ==
    StatusApplied([PlacedOrder(u, m) EXCEPT !.deliveryAgent = agent], status)

\* Workload of SpecReviews: two picked-up orders; their agent moves them between
\* picked_up and delivered while customers send create-review requests, handled
\* concurrently.
ReviewCallers == {"c1", "c2", "o1"}
ReviewRaceRatings == {1, 5, 6}

InitReviews ==
    /\ menu = MenuInit
    /\ carts = <<>>
    /\ orders = <<OrderAt("c1", "m1", "a1", "picked_up"),
                  OrderAt("c2", "m2", "a1", "picked_up")>>
    /\ reviews = EmptyBag
    /\ rating = RatingInit
    /\ reqs = EmptyBag
    /\ last = Step("init", "", "")
    /\ created = CreatedInit

NextReviews ==
    \/ \E u \in ReviewCallers, id \in {1, 2, 9}, stars \in ReviewRaceRatings :
          ReviewBegin(u, id, stars)
    \/ \E q \in InFlight : ReviewSave(q)
    \/ \E q \in InFlight : ReviewFind(q)
    \/ \E q \in InFlight : ReviewWrite(q)
    \/ \E id \in {1, 2}, status \in agentStatuses : UpdateStatus("a1", id, status)

SpecReviews == InitReviews /\ [][NextReviews]_vars

\* Workload of SpecRating: four delivered orders, three of them of restaurant r1;
\* their customers send create-review requests one after another.
InitRating ==
    /\ menu = MenuInit
    /\ carts = <<>>
    /\ orders = <<OrderAt("c1", "m1", "a1", "delivered"),
                  OrderAt("c2", "m1", "a2", "delivered"),
                  OrderAt("c1", "m1", "a1", "delivered"),
                  OrderAt("c2", "m2", "a1", "delivered")>>
    /\ reviews = EmptyBag
    /\ rating = RatingInit
    /\ reqs = EmptyBag
    /\ last = Step("init", "", "")
    /\ created = CreatedInit

NextRating ==
    \/ \E u \in Customers, id \in 1..4, stars \in RatingInputs :
          Sequential /\ ReviewBegin(u, id, stars)
    \/ \E q \in InFlight : ReviewSave(q)
    \/ \E q \in InFlight : ReviewFind(q)
    \/ \E q \in InFlight : ReviewWrite(q)

SpecRating == InitRating /\ [][NextRating]_vars

\* Workload of SpecSnapshot: a customer fills a cart and places an order; then the
\* owner changes or deletes the menu item, the customer fills a new cart, the owner
\* assigns an agent and owner and agent update the status; one request at a time.
SnapshotBodies ==
    {b \in MenuBodies : b.field = "name" \/ (b.field = "price" /\ b.value >= 0)}
SnapshotStatuses == {"accepted", "picked_up", "delivered"}

NextSnapshot ==
    \/ \E m \in MenuIds : Sequential /\ CartAddBegin("c1", m, 1)
    \/ \E q \in InFlight : CartAddSave(q)
    \/ Sequential /\ CartDelete("c1", "m1")
    \/ Sequential /\ PlaceOrderBegin("c1")
    \/ \E q \in InFlight : PlaceOrderSave(q)
    \/ \E q \in InFlight : PlaceOrderDeleteCart(q)
    \/ \E q \in InFlight : PlaceOrderRespond(q)
    \/ \E body \in SnapshotBodies : Sequential /\ MenuUpdate("o1", "m1", body)
    \/ \E u \in Owners : Sequential /\ MenuDelete(u, "m1")
    \/ \E u \in {"o1", "a1"}, status \in SnapshotStatuses :
          Sequential /\ UpdateStatus(u, 1, status)
    \/ \E agentId \in {"a1", "c2"} : Sequential /\ AssignAgent("o1", 1, agentId)

SpecSnapshot == Init /\ [][NextSnapshot]_vars

\* Workload of SpecPrice: a customer adds, merges, updates and removes cart lines
\* while the owners change the menu items' prices; one request at a time.
NextPrice ==
    \/ \E u \in CartCallers, m \in MenuIds : Sequential /\ CartAddBegin(u, m, 1)
    \/ \E q \in InFlight : CartAddSave(q)
    \/ \E m \in MenuIds, qty \in 1..MaxQty : Sequential /\ CartUpdate("c1", m, qty)
    \/ \E m \in MenuIds : Sequential /\ CartDelete("c1", m)
    \/ \E u \in Owners, m \in MenuIds, price \in PriceInputs :
          Sequential /\ MenuUpdate(u, m, [field |-> "price", value |-> price])

SpecPrice == Init /\ [][NextPrice]_vars

\* Workload of SpecAmounts: the menu item has one of a range of prices; a customer
\* adds it, changes the quantity and places the order; one request at a time.
AmountPrices == (0..12) \cup {29, 30, 35, 70, 100, 130}

InitAmounts ==
    /\ menu \in {[MenuInit EXCEPT !["m1"].price = p] : p \in AmountPrices}
    /\ carts = <<>>
    /\ orders = <<>>
    /\ reviews = EmptyBag
    /\ rating = RatingInit
    /\ reqs = EmptyBag
    /\ last = Step("init", "", "")
    /\ created = CreatedInit

NextAmounts ==
    \/ \E qty \in 1..MaxQty : Sequential /\ CartAddBegin("c1", "m1", qty)
    \/ \E q \in InFlight : CartAddSave(q)
    \/ \E qty \in 1..MaxQty : Sequential /\ CartUpdate("c1", "m1", qty)
    \/ Sequential /\ PlaceOrderBegin("c1")
    \/ \E q \in InFlight : PlaceOrderSave(q)
    \/ \E q \in InFlight : PlaceOrderDeleteCart(q)
    \/ \E q \in InFlight : PlaceOrderRespond(q)

SpecAmounts == InitAmounts /\ [][NextAmounts]_vars

\* Workload of SpecRace: three delivered orders, two of them of restaurant r1 and by
\* different customers; the customers' create-review requests are handled
\* concurrently.
RaceRatings == {1, 5}

InitRace ==
    /\ menu = MenuInit
    /\ carts = <<>>
    /\ orders = <<OrderAt("c1", "m1", "a1", "delivered"),
                  OrderAt("c2", "m1", "a2", "delivered"),
                  OrderAt("c1", "m2", "a1", "delivered")>>
    /\ reviews = EmptyBag
    /\ rating = RatingInit
    /\ reqs = EmptyBag
    /\ last = Step("init", "", "")
    /\ created = CreatedInit

NextRace ==
    \/ \E u \in Customers, id \in 1..3, stars \in RaceRatings : ReviewBegin(u, id, stars)
    \/ \E q \in InFlight : ReviewSave(q)
    \/ \E q \in InFlight : ReviewFind(q)
    \/ \E q \in InFlight : ReviewWrite(q)

SpecRace == InitRace /\ [][NextRace]_vars

\* ------------------------------------------------------------ claims C1..
\* C1: every line of a stored cart references a menu item of the cart's restaurant.
C1_OneRestaurantPerCart ==
    \A i \in 1..Len(carts) : \A j \in 1..Len(carts[i].items) :
        menu[carts[i].items[j].menuItem].restaurant = carts[i].restaurant

\* C2: after a customer's DELETE /cart/clear request completes, that customer has
\* no cart document.
C2_ClearDeletesCart ==
    (last.arg = "clear" /\ last.op \in {"cartRemove", "cartClear"}
       /\ last.user \in Customers /\ last.code # 0)
      => ~HasCart(last.user)

\* C5: no state holds a persisted order of a placement together with the cart it
\* was created from.
C5_OrderAtomicWithCart ==
    \A q \in InFlight :
        (q.kind = "place" /\ q.pc = "deleteCart")
          => CartIdxById(q.cartId) = {}

\* C6: when a placement that no other request of the customer overlapped answers
\* 201, the customer has no cart.
C6_NoCartAfterPlacement ==
    (last.op = "place" /\ last.code = 201 /\ last.alone) => ~HasCart(last.user)
C6_Witness ==
    last.op = "place" /\ last.code = 201 /\ last.alone /\ Len(orders) > 0

\* C7: at most one cart document per customer.
C7_OneCartPerCustomer ==
    \A u \in Customers : Cardinality(CartIdx(u)) <= 1
C7_Witness ==
    /\ last.op = "cartAdd" /\ last.code = 500 /\ last.err = "E11000"
    /\ HasCart(last.user)

\* C3: every successful change of an order by a restaurant_owner targets an order
\* of a restaurant that caller owns, and every successful status update by a
\* delivery_agent targets an order assigned to that caller.
C3_OrderMutationsScoped ==
    (last.op \in {"status", "assign"} /\ last.code = 200)
      => /\ role(last.user) = "restaurant_owner"
              => restaurantOwner(orders[last.order].restaurant) = last.user
         /\ (role(last.user) = "delivery_agent" /\ last.op = "status")
              => orders[last.order].deliveryAgent = last.user

\* C4: a status update of an existing order succeeds only for a restaurant_owner
\* asking for accepted / preparing / ready or a delivery_agent asking for
\* picked_up / delivered; an out-of-set status of those roles answers 400, any
\* other role 403, and a rejected update leaves the orders as they were.
C4_StatusStep ==
    (last'.op = "status" /\ last'.order \in 1..Len(orders)) =>
        LET r == role(last'.user)
            inSet == \/ r = "restaurant_owner"
                        /\ last'.arg \in {"accepted", "preparing", "ready"}
                     \/ r = "delivery_agent"
                        /\ last'.arg \in {"picked_up", "delivered"}
        IN  /\ last'.code = 200 => inSet
            /\ (r \in {"restaurant_owner", "delivery_agent"} /\ ~inSet)
                  => last'.code = 400
            /\ r \in {"customer", "admin"} => last'.code = 403
            /\ last'.code # 200 => orders' = orders
C4_RoleStatusSets == [][C4_StatusStep]_vars
C4_Witness ==
    /\ last.op = "status" /\ last.user \in Owners /\ last.arg = "picked_up"
    /\ last.code = 400 /\ last.order \in 1..Len(orders)
    /\ \E i \in 1..Len(orders) : orders[i].status = "delivered"

\* C8: at most one review per (customer, order) pair, also under concurrent
\* create-review requests; a create-review request that arrives when the pair has
\* a review is answered 400 and stores nothing.
C8_Unique ==
    \A d \in BagToSet(reviews) :
        /\ reviews[d] = 1
        /\ \A e \in BagToSet(reviews) :
              (e.customer = d.customer /\ e.order = d.order) => e = d
C8_SecondStep ==
    (last'.op = "review" /\ last'.step = "begin"
       /\ ReviewExists(last'.user, last'.order))
      => last'.code = 400 /\ reviews' = reviews /\ reqs' = reqs
C8_ReviewUniqueness == []C8_Unique /\ [][C8_SecondStep]_vars
C8_Witness ==
    /\ last.op = "review" /\ last.step = "save" /\ last.err = "E11000"
    /\ ReviewExists(last.user, last.order)

\* C9: a customer's create-review request goes ahead only for an existing order
\* of the caller that is delivered when the request arrives; otherwise it is
\* answered 404, 403, 400 in that order of checks, stores no review and leaves the
\* rating aggregates alone.  A stored review carries its order's restaurant (and
\* customer).
C9_Stored ==
    \A d \in BagToSet(reviews) :
        /\ d.order \in 1..Len(orders)
        /\ d.restaurant = orders[d.order].restaurant
        /\ d.customer = orders[d.order].customer
C9_BeginStep ==
    (last'.op = "review" /\ last'.step = "begin" /\ last'.user \in Customers) =>
        LET id == last'.order
            u == last'.user
            exists == id \in 1..Len(orders)
            own == exists /\ orders[id].customer = u
            delivered == own /\ orders[id].status = "delivered"
        IN  /\ ~exists => last'.code = 404
            /\ (exists /\ ~own) => last'.code = 403
            /\ (own /\ ~delivered) => last'.code = 400
            /\ ~delivered => (reviews' = reviews /\ rating' = rating /\ reqs' = reqs)
C9_StoreStep ==
    reviews' # reviews => (last'.op = "review" /\ last'.step = "save")
C9_ReviewPreconditions ==
    []C9_Stored /\ [][C9_BeginStep /\ C9_StoreStep]_vars
C9_Witness ==
    /\ last.op = "review" /\ last.step = "begin" /\ last.code = 400
    /\ last.order \in 1..Len(orders)
    /\ orders[last.order].customer = last.user
    /\ orders[last.order].status # "delivered"
    /\ ~ReviewExists(last.user, last.order)
    /\ reviews # EmptyBag

\* C10: after N >= 1 review creations for a restaurant, run one after another,
\* the restaurant's rating.count is N and its rating.average is the mean of the N
\* ratings rounded (half up) to one decimal.
C10_RatingAggregate ==
    \A r \in Restaurants :
        (reqs = EmptyBag /\ created[r].n >= 1) =>
            /\ rating[r].count = created[r].n
            /\ 2 * created[r].n * rating[r].average10 <= 20 * created[r].sum + created[r].n
            /\ 20 * created[r].sum + created[r].n
                 < 2 * created[r].n * (rating[r].average10 + 1)
C10_Witness ==
    /\ reqs = EmptyBag /\ created["r1"].n = 3
    /\ (10 * created["r1"].sum) % 3 = 2
    /\ created["r2"].n = 1

\* C11: a stored order's customer, restaurant, line items (menu item, name,
\* quantity, price), totalAmount, deliveryFee, tax and finalAmount never change and
\* no order disappears, whatever request runs; a status update changes nothing of
\* an order but status, paymentStatus and actualDeliveryTime, an agent assignment
\* nothing but deliveryAgent, and neither touches the carts or the menu.
C11_Snapshot(o) ==
    [customer |-> o.customer, restaurant |-> o.restaurant, items |-> o.items,
     totalAmount |-> o.totalAmount, deliveryFee |-> o.deliveryFee, tax |-> o.tax,
     finalAmount |-> o.finalAmount]
C11_Step ==
    /\ Len(orders') >= Len(orders)
    /\ \A i \in 1..Len(orders) : C11_Snapshot(orders'[i]) = C11_Snapshot(orders[i])
    /\ last'.op \in {"status", "assign"} =>
          /\ menu' = menu /\ carts' = carts /\ Len(orders') = Len(orders)
          /\ \A i \in 1..Len(orders) :
                IF last'.op = "status"
                THEN orders'[i].deliveryAgent = orders[i].deliveryAgent
                ELSE /\ orders'[i].status = orders[i].status
                     /\ orders'[i].paymentStatus = orders[i].paymentStatus
                     /\ orders'[i].actualDeliveryTime = orders[i].actualDeliveryTime
C11_OrderSnapshotImmutable == [][C11_Step]_vars
C11_Witness ==
    /\ Len(orders) = 1 /\ orders[1].status = "delivered" /\ orders[1].deliveryAgent = "a1"
    /\ orders[1].items[1].menuItem = "m1" /\ orders[1].items[1].price = 10
    /\ orders[1].items[1].name = "dal" /\ orders[1].finalAmount = 61
    /\ "m1" \notin DOMAIN menu
    /\ HasCart("c1")

\* C12: a cart line's price never changes while the line exists (menu price
\* updates and merging adds included), and a line that appears carries the menu
\* item's price of that moment.
C12_Step ==
    \A i2 \in 1..Len(carts') : \A j2 \in 1..Len(carts'[i2].items) :
        LET line == carts'[i2].items[j2]
            same == {i \in 1..Len(carts) : carts[i].id = carts'[i2].id}
            lines == UNION {{carts[i].items[j] : j \in 1..Len(carts[i].items)} : i \in same}
            before == {l \in lines : l.menuItem = line.menuItem}
        IN  IF before = {}
            THEN line.menuItem \in DOMAIN menu /\ line.price = menu[line.menuItem].price
            ELSE \A l \in before : l.price = line.price
C12_CartPriceSnapshot == [][C12_Step]_vars
C12_Witness ==
    /\ last.op = "cartAdd" /\ last.step = "save" /\ last.code = 200 /\ last.arg = "m1"
    /\ HasCart("c1") /\ Len(CartFindOne("c1").items) = 1
    /\ CartFindOne("c1").items[1].quantity = 2
    /\ CartFindOne("c1").items[1].price = 10
    /\ menu["m1"].price = 30

\* C13: every line of a stored cart has quantity >= 1, whatever integer quantities
\* the add and update requests carry; a customer's update-quantity request with
\* quantity <= 0 is answered 400, one for a missing cart or line 404, each leaving
\* the carts as they were, and any other stores the requested quantity.
C13_Stored ==
    \A i \in 1..Len(carts) : \A j \in 1..Len(carts[i].items) :
        carts[i].items[j].quantity >= 1
C13_UpdateStep ==
    (last'.op = "cartUpdate" /\ last'.user \in Customers) =>
        LET u == last'.user
            m == last'.arg
        IN  IF last'.qty <= 0
            THEN last'.code = 400 /\ carts' = carts
            ELSE IF ~HasCart(u) \/ \A j \in 1..Len(CartFindOne(u).items) :
                                      CartFindOne(u).items[j].menuItem # m
            THEN last'.code = 404 /\ carts' = carts
            ELSE /\ last'.code = 200
                 /\ \E i \in 1..Len(carts') : \E j \in 1..Len(carts'[i].items) :
                       /\ carts'[i].user = u
                       /\ carts'[i].items[j].menuItem = m
                       /\ carts'[i].items[j].quantity = last'.qty
C13_LineQuantity == []C13_Stored /\ [][C13_UpdateStep]_vars
C13_Witness ==
    /\ last.op = "cartAdd" /\ last.step = "save" /\ last.code = 500
    /\ last.err = "ValidationError"
    /\ HasCart(last.user)
    /\ \E j \in 1..Len(CartFindOne(last.user).items) :
          /\ CartFindOne(last.user).items[j].menuItem = last.arg
          /\ CartFindOne(last.user).items[j].quantity = 1

\* C14: a remove that takes the last line leaves the customer's cart stored with
\* zero items and restaurant null, one that leaves lines leaves the restaurant as it
\* was; an add of an available item to such an emptied cart is not rejected,
\* whatever the item's restaurant, and when saved gives the cart that restaurant.
C14_RemoveStep ==
    (last'.op = "cartRemove" /\ last'.code = 200) =>
        LET u == last'.user
            left == SelectSeq(CartFindOne(u).items, LAMBDA l : l.menuItem # last'.arg)
        IN  \E i \in 1..Len(carts') :
               /\ carts'[i].user = u
               /\ carts'[i].items = left
               /\ carts'[i].restaurant =
                     IF left = <<>> THEN Null ELSE CartFindOne(u).restaurant
C14_Emptied(u) ==
    HasCart(u) /\ CartFindOne(u).items = <<>> /\ CartFindOne(u).restaurant = Null
C14_AddStep ==
    (/\ last'.op = "cartAdd" /\ last'.step = "begin" /\ C14_Emptied(last'.user)
     /\ last'.arg \in DOMAIN menu /\ menu[last'.arg].isAvailable) =>
        /\ last'.code = 0
        /\ \E q \in BagToSet(reqs') :
              /\ q.user = last'.user /\ ~q.isNew
              /\ q.doc.restaurant = menu[last'.arg].restaurant
              /\ Len(q.doc.items) = 1 /\ q.doc.items[1].menuItem = last'.arg
C14_SaveStep ==
    (/\ last'.op = "cartAdd" /\ last'.step = "save" /\ last'.code = 200
     /\ C14_Emptied(last'.user)) =>
        \E i \in 1..Len(carts') :
           /\ carts'[i].user = last'.user
           /\ carts'[i].restaurant = menu[last'.arg].restaurant
           /\ Len(carts'[i].items) = 1
C14_EmptiedCart == [][C14_RemoveStep /\ C14_AddStep /\ C14_SaveStep]_vars
C14_Witness ==
    /\ last.op = "cartAdd" /\ last.step = "begin" /\ last.code = 0 /\ last.arg = "m2"
    /\ C14_Emptied("c1")
    /\ \E q \in InFlight : q.user = "c1" /\ ~q.isNew /\ q.doc.restaurant = "r2"
    /\ menu["m1"].restaurant = "r1"

\* C15: a customer's placement with no cart or with a cart of zero items is
\* answered 400, stores and starts no order and leaves the carts as they were; every
\* stored order has at least one line.
C15_Stored ==
    \A i \in 1..Len(orders) : Len(orders[i].items) >= 1
C15_BeginStep ==
    (/\ last'.op = "place" /\ last'.step = "begin" /\ last'.user \in Customers
     /\ (~HasCart(last'.user) \/ CartFindOne(last'.user).items = <<>>)) =>
        /\ last'.code = 400
        /\ orders' = orders /\ carts' = carts
        /\ BagCardinality(reqs') = BagCardinality(reqs)
C15_EmptyCartRejected == []C15_Stored /\ [][C15_BeginStep]_vars
C15_Witness ==
    /\ last.op = "place" /\ last.step = "begin" /\ last.code = 400
    /\ HasCart(last.user) /\ CartFindOne(last.user).items = <<>>
    /\ orders = <<>>

\* C16: an order built from a cart of subtotal S has totalAmount S, deliveryFee 50,
\* tax the integer nearest to S / 20 (a half rounds up) and finalAmount S + 50 + tax;
\* S = 200 gives 50, 10, 260.
C16_Amounts(o, S) ==
    /\ o.totalAmount = S
    /\ o.deliveryFee = 50
    /\ 20 * o.tax - 10 <= S /\ S < 20 * o.tax + 10
    /\ o.finalAmount = S + 50 + o.tax
    /\ S = 200 => (o.tax = 10 /\ o.finalAmount = 260)
C16_Stored ==
    \A i \in 1..Len(orders) : C16_Amounts(orders[i], orders[i].totalAmount)
C16_BeginStep ==
    (last'.op = "place" /\ last'.step = "begin" /\ last'.code = 0) =>
        \E q \in BagToSet(reqs') :
           /\ q.kind = "place" /\ q.user = last'.user
           /\ C16_Amounts(q.doc, CartFindOne(last'.user).totalAmount)
C16_OrderAmounts == []C16_Stored /\ [][C16_BeginStep]_vars
C16_Witness ==
    /\ Len(orders) = 1 /\ orders[1].totalAmount = 70
    /\ orders[1].tax = 4 /\ orders[1].finalAmount = 124
    /\ orders[1].items[1].quantity = 1

\* C17: a successful status update to delivered sets status, paymentStatus paid and
\* actualDeliveryTime in one write, a successful update to another status changes
\* neither of the two; every order with status delivered is paid and has its
\* delivery time.
C17_Stored ==
    \A i \in 1..Len(orders) :
        orders[i].status = "delivered" =>
            orders[i].paymentStatus = "paid" /\ orders[i].actualDeliveryTime # Null
C17_Step ==
    (last'.op = "status" /\ last'.code = 200) =>
        LET id == last'.order
        IN  /\ orders'[id].status = last'.arg
            /\ IF last'.arg = "delivered"
               THEN /\ orders'[id].paymentStatus = "paid"
                    /\ orders'[id].actualDeliveryTime = Now
               ELSE /\ orders'[id].paymentStatus = orders[id].paymentStatus
                    /\ orders'[id].actualDeliveryTime = orders[id].actualDeliveryTime
C17_DeliveredSideEffect == []C17_Stored /\ [][C17_Step]_vars
C17_Witness ==
    /\ last.op = "status" /\ last.code = 200 /\ last.arg = "delivered"
    /\ last.was = "accepted"
    /\ orders[last.order].status = "delivered"
    /\ orders[last.order].paymentStatus = "paid"

\* C18: an assign request is answered 403 unless the caller is a restaurant_owner
\* or an admin, else 404 unless the order exists, else 400 unless the target is a
\* user with role delivery_agent, else 200; a rejection leaves the orders as they
\* were, a success sets the order's deliveryAgent and leaves its status; every
\* order's deliveryAgent is unset or a delivery agent.
C18_Stored ==
    \A i \in 1..Len(orders) :
        orders[i].deliveryAgent = Null \/ orders[i].deliveryAgent \in Agents
C18_Step ==
    last'.op = "assign" =>
        LET id == last'.order
            expected ==
                IF last'.user \notin Owners \cup Admins THEN 403
                ELSE IF id \notin 1..Len(orders) THEN 404
                ELSE IF last'.arg \notin Agents THEN 400
                ELSE 200
        IN  /\ last'.code = expected
            /\ last'.code # 200 => orders' = orders
            /\ last'.code = 200 =>
                  /\ orders'[id].deliveryAgent = last'.arg
                  /\ orders'[id].status = orders[id].status
C18_AgentAssignment == []C18_Stored /\ [][C18_Step]_vars
C18_Witness ==
    /\ last.op = "assign" /\ last.code = 400 /\ last.arg \in Customers
    /\ last.user \in Owners /\ last.order \in 1..Len(orders)
    /\ orders[last.order].deliveryAgent = "a2"
    /\ orders[last.order].status = "picked_up"

\* C19: a read of an existing order sends the order (200) exactly when the caller
\* is its customer, its assigned delivery agent, an admin, or the owner of its
\* restaurant; any other caller is answered 403 without the order; a read changes
\* nothing.
C19_Step ==
    (last'.op = "get" /\ last'.order \in 1..Len(orders)) =>
        LET o == orders[last'.order]
            u == last'.user
            allowed == \/ o.customer = u
                       \/ o.deliveryAgent = u
                       \/ u \in Admins
                       \/ u \in Owners /\ restaurantOwner(o.restaurant) = u
        IN  /\ allowed => (last'.code = 200 /\ last'.sent)
            /\ ~allowed => (last'.code = 403 /\ ~last'.sent)
            /\ orders' = orders
C19_OrderReadAccess == [][C19_Step]_vars
C19_Witness ==
    /\ last.op = "get" /\ last.code = 403 /\ ~last.sent
    /\ last.order \in 1..Len(orders)
    /\ last.user \in Agents
    /\ orders[last.order].deliveryAgent \in Agents

\* C20: a status update of an existing order succeeds exactly when the caller is
\* the owner of the order's restaurant asking for accepted / preparing / ready or
\* the order's assigned agent asking for picked_up / delivered, whatever the order's
\* current status; so an assigned agent moves an order from placed straight to
\* delivered.
C20_Step ==
    (last'.op = "status" /\ last'.order \in 1..Len(orders)) =>
        LET o == orders[last'.order]
            u == last'.user
            allowed ==
                \/ /\ u \in Owners /\ restaurantOwner(o.restaurant) = u
                   /\ last'.arg \in {"accepted", "preparing", "ready"}
                \/ /\ u \in Agents /\ o.deliveryAgent = u
                   /\ last'.arg \in {"picked_up", "delivered"}
        IN  /\ last'.code = 200 <=> allowed
            /\ last'.code = 200 => orders'[last'.order].status = last'.arg
            /\ last'.was = o.status
C20_NoTransitionCheck == [][C20_Step]_vars
C20_Witness ==
    /\ last.op = "status" /\ last.code = 200 /\ last.user \in Agents
    /\ last.was = "placed" /\ last.arg = "delivered"
    /\ orders[last.order].status = "delivered"

\* C21: a create-review request writes the count and average it computed from the
\* reviews it read, whatever was stored since; so two concurrent creations for one
\* restaurant can end with a stored count and average of fewer reviews than the
\* restaurant has.  The stored count never exceeds the restaurant's reviews, and is
\* at least 1 once a creation has completed.
C21_Stored ==
    \A r \in Restaurants :
        /\ rating[r].count <=
              BagCardinality([d \in {x \in BagToSet(reviews) : x.restaurant = r} |->
                                reviews[d]])
        /\ created[r].n >= 1 => rating[r].count >= 1
C21_WriteStep ==
    (last'.op = "review" /\ last'.step = "write") =>
        \E q \in BagToSet(reqs) :
           /\ q.pc = "write" /\ q.user = last'.user /\ q.doc.order = last'.order
           /\ rating'[q.doc.restaurant].count = q.n
           /\ 2 * q.n * rating'[q.doc.restaurant].average10 <= 20 * q.sum + q.n
           /\ 20 * q.sum + q.n < 2 * q.n * (rating'[q.doc.restaurant].average10 + 1)
           /\ reviews' = reviews
C21_RatingRace == []C21_Stored /\ [][C21_WriteStep]_vars
C21_Witness ==
    /\ reqs = EmptyBag /\ created["r1"].n = 2 /\ created["r1"].sum = 6
    /\ BagCardinality([d \in {x \in BagToSet(reviews) : x.restaurant = "r1"} |->
                          reviews[d]]) = 2
    /\ rating["r1"].count = 1
    /\ rating["r1"].average10 # 30

====
